---- MODULE Spec2Model ----
(***************************************************************************)
(* Model of fix_backdrop_filter.py: the line patcher fix_backdrop_filter   *)
(* and the file driver main.                                               *)
(*                                                                         *)
(* A text is a sequence of tokens.  A token is a piece of text that the    *)
(* regular expression and the substring test can only meet whole: the      *)
(* one-character tokens " ", "\t", ";", "1", "2", "\n", and the words      *)
(* "backdrop-filter:", "-webkit-", "color: red" and "/*c*/".  No token     *)
(* occurs inside a concatenation of the others except as itself, so the    *)
(* token-level match and the token-level substring test agree with the     *)
(* character-level ones of the Python code.                                *)
(***************************************************************************)
EXTENDS Integers, Sequences, FiniteSets, TLC

VARIABLES
    pc,              \* position in main / in fix_backdrop_filter
    file,            \* contents of css_file on disk
    handles,         \* the open file objects of main: subset of {"r", "w"}
    exc,             \* the exception raised in this run (None: none so far)
    stdout,          \* what print has written, one entry per call
    css_content,     \* argument of fix_backdrop_filter / local of main
    lines,           \* css_content.split('\n')
    i,               \* number of lines the for loop has consumed
    modified_lines,  \* the output list under construction
    origin,          \* history: for each entry of modified_lines, the index
                     \* of the input line it copies, 0 for an inserted line
    fixed_content,   \* return value of fix_backdrop_filter
    pass             \* how many times the patcher has been applied

vars == <<pc, file, handles, exc, stdout, css_content, lines, i,
          modified_lines, origin, fixed_content, pass>>

(***************************************************************************)
(* Bounds of the model.                                                    *)
(***************************************************************************)
MaxLines == 2
MaxPasses == 2

None == [cls |-> "None"]

(***************************************************************************)
(* Tokens.                                                                 *)
(***************************************************************************)
NL == "\n"
PROP == "backdrop-filter:"
WEBKIT == "-webkit-"
SEMI == ";"
COMMENT == "/*c*/"
COLOR == "color: red"

\* The class \s of the pattern (the members that can occur in a line).
Whitespace == {" ", "\t", "\r", "\f"}

(***************************************************************************)
(* str.split('\n') and '\n'.join(...)                                      *)
(***************************************************************************)
RECURSIVE split(_, _)
split(s, sep) ==
    IF \E k \in 1..Len(s) : s[k] = sep
    THEN LET k == CHOOSE k \in 1..Len(s) :
                      s[k] = sep /\ \A j \in 1..(k-1) : s[j] # sep
         IN  <<SubSeq(s, 1, k-1)>> \o split(SubSeq(s, k+1, Len(s)), sep)
    ELSE <<s>>

RECURSIVE join(_, _)
join(sep, ls) ==
    IF ls = <<>> THEN <<>>
    ELSE IF Len(ls) = 1 THEN ls[1]
    ELSE ls[1] \o <<sep>> \o join(sep, Tail(ls))

(***************************************************************************)
(* re.match(r'^(\s+)backdrop-filter:\s*(.*?);$', line)                     *)
(***************************************************************************)
\* Length of the longest run of whitespace at the start of s (greedy \s*).
LeadingWs(s) ==
    CHOOSE k \in 0..Len(s) :
        /\ \A j \in 1..k : s[j] \in Whitespace
        /\ (k = Len(s) \/ s[k+1] \notin Whitespace)

\* Variant: the pattern without its final $, so that the lazy value stops at
\* the first ";" and the rest of the line is ignored.
re_match_unanchored(line) ==
    LET k    == LeadingWs(line)
        rest == SubSeq(line, k+2, Len(line))
        m    == LeadingWs(rest)
    IN  IF /\ k >= 1
           /\ Len(line) >= k+1
           /\ line[k+1] = PROP
           /\ \E j \in (m+1)..Len(rest) : rest[j] = SEMI
        THEN [cls |-> "Match",
              group1 |-> SubSeq(line, 1, k),
              group2 |-> SubSeq(rest, m+1,
                            (CHOOSE j \in (m+1)..Len(rest) :
                                 /\ rest[j] = SEMI
                                 /\ \A h \in (m+1)..(j-1) : rest[h] # SEMI) - 1)]
        ELSE None

\* The match object (its two groups) or None.  (\s+) is greedy and must be
\* followed by the literal, so it is the whole leading run and is not empty;
\* \s* is greedy; (.*?) is lazy but ;$ only matches at the very end of the
\* line, so the value runs up to the last token, which must be ";".
re_match(line) ==
    LET k    == LeadingWs(line)
        rest == SubSeq(line, k+2, Len(line))
        m    == LeadingWs(rest)
    IN  IF /\ k >= 1
           /\ Len(line) >= k+1
           /\ line[k+1] = PROP
           /\ Len(rest) >= 1
           /\ rest[Len(rest)] = SEMI
           /\ \A j \in 1..Len(rest) : rest[j] # NL
        THEN [cls |-> "Match",
              group1 |-> SubSeq(line, 1, k),
              group2 |-> SubSeq(rest, m+1, Len(rest)-1)]
        ELSE None

\* Variant: the expected line built without the indentation.
webkit_pattern_noindent(indent, value) ==
    <<WEBKIT, PROP, " ">> \o value \o <<SEMI>>

\* webkit_pattern = f"{indent}-webkit-backdrop-filter: {value};"
webkit_pattern(indent, value) ==
    indent \o <<WEBKIT, PROP, " ">> \o value \o <<SEMI>>

\* Variant: no space after the colon.
inserted_line_nospace(indent, value) ==
    indent \o <<WEBKIT, PROP>> \o value \o <<SEMI>>

\* Variant: the indentation is not copied.
inserted_line_noindent(indent, value) ==
    <<WEBKIT, PROP, " ">> \o value \o <<SEMI>>

\* the appended f"{indent}-webkit-backdrop-filter: {value};"
inserted_line(indent, value) ==
    indent \o <<WEBKIT, PROP, " ">> \o value \o <<SEMI>>

\* Python's  sub in s  on strings.
contains(sub, s) ==
    \E k \in 0..(Len(s) - Len(sub)) : SubSeq(s, k+1, k+Len(sub)) = sub

\* prev_line = lines[i-1] if i > 0 else ""   (n is the 1-based index)
prev_line(ls, n) == IF n > 1 THEN ls[n-1] ELSE <<>>

\* Variant: if webkit_pattern != prev_line
needs_insert_neq(indent, value, prev) ==
    webkit_pattern(indent, value) # prev

\* if webkit_pattern not in prev_line
needs_insert(indent, value, prev) ==
    ~ contains(webkit_pattern(indent, value), prev)

(***************************************************************************)
(* The stylesheets the model is run on: up to MaxLines lines, each an      *)
(* indentation followed by one of the line shapes below.                   *)
(***************************************************************************)
Indents == {<<>>, <<" ">>, <<" ", " ">>}

Bodies ==
    { <<>>,                                          \* blank line
      <<PROP, " ", "1", SEMI>>,                      \* backdrop-filter: 1;
      <<PROP, "2", SEMI>>,                           \* backdrop-filter:2;
      <<WEBKIT, PROP, " ", "1", SEMI>>,              \* -webkit-backdrop-filter: 1;
      <<WEBKIT, PROP, "1", SEMI>>,                   \* -webkit-backdrop-filter:1;
      <<PROP, " ", "1">>,                            \* backdrop-filter: 1
      <<PROP, " ", "1", SEMI, " ", COMMENT>>,        \* backdrop-filter: 1; /*c*/
      <<PROP, " ", "1", " ", COMMENT, SEMI>>,        \* backdrop-filter: 1 /*c*/;
      <<PROP, " ", "1", SEMI, " ", COLOR, SEMI>> }   \* backdrop-filter: 1; color: red;

LineSet == { ind \o b : ind \in Indents, b \in Bodies }

Texts ==
    { join(NL, ls) : ls \in UNION { [1..n -> LineSet] : n \in 1..MaxLines } }

(***************************************************************************)
(* fix_backdrop_filter(css_content)                                        *)
(***************************************************************************)
\* lines = css_content.split('\n'); modified_lines = []
FixEnter ==
    /\ pc = "call"
    /\ lines' = split(css_content, NL)
    /\ modified_lines' = <<>>
    /\ origin' = <<>>
    /\ i' = 0
    /\ pc' = "loop"
    /\ UNCHANGED <<file, handles, exc, stdout, css_content, fixed_content, pass>>

\* Variant: the branch that finds the prefix already there appends nothing.
appended_dropping(ls, n) ==
    LET line  == ls[n]
        match == re_match(line)
    IN  IF match.cls = "Match"
        THEN LET indent == match.group1
                 value  == match.group2
             IN  IF needs_insert(indent, value, prev_line(ls, n))
                 THEN << [text |-> inserted_line(indent, value), from |-> 0],
                         [text |-> line, from |-> n] >>
                 ELSE << >>
        ELSE << [text |-> line, from |-> n] >>

\* What one iteration of the for loop appends for line n of ls: each entry
\* is the appended text and the input line it copies (0: an inserted line).
appended(ls, n) ==
    LET line  == ls[n]
        match == re_match(line)
    IN  IF match.cls = "Match"
        THEN LET indent == match.group1
                 value  == match.group2
             IN  IF needs_insert(indent, value, prev_line(ls, n))
                 THEN << [text |-> inserted_line(indent, value), from |-> 0],
                         [text |-> line, from |-> n] >>
                 ELSE << [text |-> line, from |-> n] >>
        ELSE << [text |-> line, from |-> n] >>

\* One iteration of  for i, line in enumerate(lines).
LoopStep ==
    /\ pc = "loop"
    /\ i < Len(lines)
    /\ LET a == appended(lines, i + 1)
       IN  /\ modified_lines' = modified_lines \o [j \in 1..Len(a) |-> a[j].text]
           /\ origin' = origin \o [j \in 1..Len(a) |-> a[j].from]
    /\ i' = i + 1
    /\ UNCHANGED <<pc, file, handles, exc, stdout, css_content, lines,
                   fixed_content, pass>>

\* return '\n'.join(modified_lines)
FixReturn ==
    /\ pc = "loop"
    /\ i = Len(lines)
    /\ fixed_content' = join(NL, modified_lines)
    /\ pc' = "returned"
    /\ UNCHANGED <<file, handles, exc, stdout, css_content, lines, i,
                   modified_lines, origin, pass>>

\* The patcher applied to its own output: fix_backdrop_filter(fixed_content).
Reapply ==
    /\ pc = "returned"
    /\ pass < MaxPasses
    /\ css_content' = fixed_content
    /\ pass' = pass + 1
    /\ pc' = "call"
    /\ UNCHANGED <<file, handles, exc, stdout, lines, i, modified_lines,
                   origin, fixed_content>>

InitFix ==
    /\ pc = "call"
    /\ css_content \in Texts
    /\ lines = <<>>
    /\ i = 0
    /\ modified_lines = <<>>
    /\ origin = <<>>
    /\ fixed_content = <<>>
    /\ pass = 1
    /\ file = <<>>
    /\ handles = {}
    /\ exc = None
    /\ stdout = <<>>

NextFix == FixEnter \/ LoopStep \/ FixReturn \/ Reapply

SpecFix == InitFix /\ [][NextFix]_vars

(***************************************************************************)
(* main()                                                                  *)
(***************************************************************************)
\* The exceptions the steps of main can raise, all below Exception in
\* Python's hierarchy.
OpenErrors == {"FileNotFoundError", "PermissionError"}
ReadErrors == {"UnicodeDecodeError", "OSError"}
WriteErrors == {"OSError"}
ExceptionClasses == OpenErrors \cup ReadErrors \cup WriteErrors

\* Variant: except OSError as e
except_matches_oserror(cls) == cls \in OpenErrors \cup WriteErrors

\* except Exception as e: does the clause take an exception of class cls?
except_matches(cls) == cls \in ExceptionClasses

SUCCESS_NOTICE == <<"success">>
\* f"... {e}": the notice carries the description of e.
error_notice(e) == <<"error", e.cls>>

\* Variant: open(css_file, 'w+', encoding='utf-8'), which truncates the file.
OpenRead_truncating ==
    /\ pc = "start"
    /\ \/ /\ handles' = handles \cup {"r"}
          /\ file' = <<>>
          /\ pc' = "reading"
          /\ exc' = exc
       \/ /\ \E c \in OpenErrors : exc' = [cls |-> c]
          /\ pc' = "except"
          /\ UNCHANGED <<handles, file>>
    /\ UNCHANGED <<stdout, css_content, lines, i, modified_lines,
                   origin, fixed_content, pass>>

\* open(css_file, 'r', encoding='utf-8')
OpenRead ==
    /\ pc = "start"
    /\ \/ /\ handles' = handles \cup {"r"}
          /\ pc' = "reading"
          /\ exc' = exc
       \/ /\ \E c \in OpenErrors : exc' = [cls |-> c]
          /\ pc' = "except"
          /\ handles' = handles
    /\ UNCHANGED <<file, stdout, css_content, lines, i, modified_lines,
                   origin, fixed_content, pass>>

\* css_content = f.read()
Read ==
    /\ pc = "reading"
    /\ \/ /\ css_content' = file
          /\ exc' = exc
       \/ /\ \E c \in ReadErrors : exc' = [cls |-> c]
          /\ css_content' = css_content
    /\ pc' = "exit_r"
    /\ UNCHANGED <<file, handles, stdout, lines, i, modified_lines, origin,
                   fixed_content, pass>>

\* Variant: the file object is not closed (open without with).
release_leak(hs, h) == hs

\* The handles left open when the with block of handle h is left.
release(hs, h) == hs \ {h}

\* Variant: __exit__ swallows the exception.
after_with_swallow(e, normal) == normal

\* Where control goes when a with block is left: file.__exit__ returns None,
\* so a pending exception e goes on to the handler.
after_with(e, normal) == IF e = None THEN normal ELSE "except"

\* Leaving the first with block: f is closed, a pending exception goes on.
ExitRead ==
    /\ pc = "exit_r"
    /\ handles' = release(handles, "r")
    /\ pc' = after_with(exc, "call")
    /\ UNCHANGED <<file, exc, stdout, css_content, lines, i, modified_lines,
                   origin, fixed_content, pass>>

\* open(css_file, 'w', encoding='utf-8'): truncates the file.
OpenWrite ==
    /\ pc = "returned"
    /\ \/ /\ handles' = handles \cup {"w"}
          /\ file' = <<>>
          /\ pc' = "writing"
          /\ exc' = exc
       \/ /\ \E c \in OpenErrors : exc' = [cls |-> c]
          /\ pc' = "except"
          /\ UNCHANGED <<handles, file>>
    /\ UNCHANGED <<stdout, css_content, lines, i, modified_lines, origin,
                   fixed_content, pass>>

\* f.write(fixed_content): on failure some prefix has reached the file.
Write ==
    /\ pc = "writing"
    /\ \/ /\ file' = fixed_content
          /\ exc' = exc
       \/ /\ \E c \in WriteErrors : exc' = [cls |-> c]
          /\ \E n \in 0..Len(fixed_content) :
                 file' = SubSeq(fixed_content, 1, n)
    /\ pc' = "exit_w"
    /\ UNCHANGED <<handles, stdout, css_content, lines, i, modified_lines,
                   origin, fixed_content, pass>>

\* Leaving the second with block.
ExitWrite ==
    /\ pc = "exit_w"
    /\ handles' = release(handles, "w")
    /\ pc' = after_with(exc, "print")
    /\ UNCHANGED <<file, exc, stdout, css_content, lines, i, modified_lines,
                   origin, fixed_content, pass>>

\* print("... fixed!")
PrintSuccess ==
    /\ pc = "print"
    /\ stdout' = Append(stdout, SUCCESS_NOTICE)
    /\ pc' = "done"
    /\ UNCHANGED <<file, handles, exc, css_content, lines, i, modified_lines,
                   origin, fixed_content, pass>>

\* except Exception as e: print(f"... {e}")
Except ==
    /\ pc = "except"
    /\ IF except_matches(exc.cls)
       THEN /\ stdout' = Append(stdout, error_notice(exc))
            /\ pc' = "done"
       ELSE /\ pc' = "raised"
            /\ stdout' = stdout
    /\ UNCHANGED <<file, handles, exc, css_content, lines, i, modified_lines,
                   origin, fixed_content, pass>>

Init ==
    /\ pc = "start"
    /\ file \in Texts
    /\ handles = {}
    /\ exc = None
    /\ stdout = <<>>
    /\ css_content = <<>>
    /\ lines = <<>>
    /\ i = 0
    /\ modified_lines = <<>>
    /\ origin = <<>>
    /\ fixed_content = <<>>
    /\ pass = 1

Next ==
    \/ OpenRead \/ Read \/ ExitRead
    \/ FixEnter \/ LoopStep \/ FixReturn
    \/ OpenWrite \/ Write \/ ExitWrite
    \/ PrintSuccess \/ Except

Spec == Init /\ [][Next]_vars

(***************************************************************************)
(* Properties of fix_backdrop_filter, checked under SpecFix.               *)
(***************************************************************************)
\* The line the contract expects before a declaration.
Prefixed(indent, value) ==
    indent \o <<"-webkit-", "backdrop-filter:", " ">> \o value \o <<";">>

IsDeclaration(l) == re_match(l).cls = "Match"
IndentOf(l) == re_match(l).group1
ValueOf(l) == re_match(l).group2

\* p is a -webkit-backdrop-filter declaration with this indentation and value
\* (whatever the whitespace after its colon).
WebkitDeclaration(p, indent, value) ==
    LET k    == Len(indent)
        rest == SubSeq(p, k+3, Len(p))
    IN  /\ Len(p) >= k + 3
        /\ SubSeq(p, 1, k) = indent
        /\ p[k+1] = "-webkit-"
        /\ p[k+2] = "backdrop-filter:"
        /\ SubSeq(rest, LeadingWs(rest) + 1, Len(rest)) = value \o <<";">>

\* The lines of the text the patcher returned.
Out == split(fixed_content, NL)

\* Line n of the input, and the line before it in the input ("" for the first).
PrevOriginal(n) == IF n = 1 THEN <<>> ELSE lines[n-1]

\* The loop has put an inserted line right before its copy of input line n.
InsertedBefore(n) ==
    \E j \in 1..(Len(origin) - 1) : origin[j] = 0 /\ origin[j+1] = n

InFix == pc \in {"loop", "returned"}

\* C1 as stated: in the output, every backdrop-filter declaration line is
\* immediately preceded by a -webkit-backdrop-filter declaration line with the
\* same indentation and the same value.
C1_Original ==
    pc = "returned" =>
        \A j \in 1..Len(Out) :
            IsDeclaration(Out[j]) =>
                /\ j > 1
                /\ WebkitDeclaration(Out[j-1], IndentOf(Out[j]), ValueOf(Out[j]))

\* C1 amended: in the output, every backdrop-filter declaration line is
\* immediately preceded by a line that contains the text
\* <indent>-webkit-backdrop-filter: <value>; of that declaration.
C1_PrecededByPrefix ==
    pc = "returned" =>
        \A j \in 1..Len(Out) :
            IsDeclaration(Out[j]) =>
                /\ j > 1
                /\ contains(Prefixed(IndentOf(Out[j]), ValueOf(Out[j])), Out[j-1])

\* A returned output in which a declaration got its prefixed line inserted.
C1_Witness ==
    /\ pc = "returned"
    /\ \E j \in 2..Len(Out) :
           /\ IsDeclaration(Out[j])
           /\ origin[j-1] = 0
           /\ Out[j-1] = Prefixed(IndentOf(Out[j]), ValueOf(Out[j]))

\* C2: the patcher is idempotent: applied to its own output it returns that
\* output unchanged.
C2_Idempotent ==
    (pc = "returned" /\ pass >= 2) =>
        /\ fixed_content = css_content
        /\ \A j \in 1..Len(origin) : origin[j] # 0

\* The second pass has run over an output that holds an inserted line.
C2_Witness ==
    /\ pc = "returned"
    /\ pass = 2
    /\ \E j \in 2..Len(lines) :
           /\ IsDeclaration(lines[j])
           /\ lines[j-1] = Prefixed(IndentOf(lines[j]), ValueOf(lines[j]))
    /\ Len(lines) = 4

\* modified_lines without the entries the patcher inserted.
RECURSIVE DropInserted(_, _)
DropInserted(ml, org) ==
    IF ml = <<>> THEN <<>>
    ELSE (IF Head(org) = 0 THEN <<>> ELSE <<Head(ml)>>)
             \o DropInserted(Tail(ml), Tail(org))

\* C3: the input lines are preserved: the output without the inserted lines
\* is the input line sequence, so the output has at least as many lines.
C3_Preserved ==
    /\ InFix => /\ Len(origin) = Len(modified_lines)
                /\ DropInserted(modified_lines, origin) = SubSeq(lines, 1, i)
    /\ pc = "returned" =>
           /\ Len(Out) = Len(origin)
           /\ DropInserted(Out, origin) = split(css_content, NL)
           /\ Len(Out) >= Len(split(css_content, NL))

\* An output with an inserted line between two preserved input lines.
C3_Witness ==
    /\ pc = "returned"
    /\ Len(lines) = 2
    /\ origin = <<1, 0, 2>>

\* The shapes C4 names as no candidates.
MissingSemicolon(l) == l = <<>> \/ l[Len(l)] # ";"
HasInlineComment(l) == \E j \in 1..Len(l) : l[j] = COMMENT
MultipleDeclarations(l) ==
    Cardinality({j \in 1..Len(l) : l[j] = ";"}) >= 2

\* The declaration shape, said without the regular expression: a non-empty run
\* of whitespace, the property name with its colon, and ";" as the last token.
HasDeclarationShape(l) ==
    \E k \in 1..(Len(l) - 2) :
        /\ \A j \in 1..k : l[j] \in Whitespace
        /\ l[k+1] = "backdrop-filter:"
        /\ l[Len(l)] = ";"

\* C4 as stated: no line is altered, and a line without the declaration shape,
\* a line missing the semicolon, a line with an inline comment and a line
\* with several declarations never get a line inserted before them.
C4_Original ==
    InFix =>
        \A n \in 1..i :
            (\/ ~ HasDeclarationShape(lines[n])
             \/ MissingSemicolon(lines[n])
             \/ HasInlineComment(lines[n])
             \/ MultipleDeclarations(lines[n])) => ~ InsertedBefore(n)

\* C4 amended: every input line is copied unaltered, and a line without the
\* declaration shape (in particular one missing the final semicolon, or with
\* a comment or anything else after its last semicolon) gets no line inserted
\* before it; a line with several declarations or a comment inside that has
\* the shape is a candidate.
C4_NonCandidates ==
    InFix =>
        /\ \A j \in 1..Len(origin) :
               origin[j] # 0 => modified_lines[j] = lines[origin[j]]
        /\ \A n \in 1..i :
               (\/ ~ HasDeclarationShape(lines[n])
                \/ MissingSemicolon(lines[n])) => ~ InsertedBefore(n)
        /\ \A n \in 1..i :
               (HasDeclarationShape(lines[n]) /\ n = 1) => InsertedBefore(n)

\* The loop has passed a declaration with a trailing comment and one without
\* its semicolon, and inserted nothing.
C4_Witness ==
    /\ pc = "returned"
    /\ Len(lines) = 2
    /\ lines[1] = <<" ", PROP, " ", "1", SEMI, " ", COMMENT>>
    /\ lines[2] = <<" ", PROP, " ", "1">>
    /\ origin = <<1, 2>>

\* C5 as stated: for a matching line, the insertion is skipped exactly when
\* the preceding input line equals the expected prefixed line.
C5_Original ==
    InFix =>
        \A n \in 1..i :
            IsDeclaration(lines[n]) =>
                (~ InsertedBefore(n) <=>
                     PrevOriginal(n) = Prefixed(IndentOf(lines[n]), ValueOf(lines[n])))

\* C5 amended: for a matching line, the insertion is skipped exactly when the
\* preceding input line contains the expected prefixed line; otherwise the
\* prefixed line is inserted immediately before the line and the predecessor
\* stays in place before it.
C5_SkipIffContained ==
    InFix =>
        \A n \in 1..i :
            IsDeclaration(lines[n]) =>
                LET want == Prefixed(IndentOf(lines[n]), ValueOf(lines[n]))
                IN  /\ ~ InsertedBefore(n) <=> contains(want, PrevOriginal(n))
                    /\ \A j \in 1..(Len(origin) - 1) :
                           (origin[j] = 0 /\ origin[j+1] = n) =>
                               /\ modified_lines[j] = want
                               /\ modified_lines[j+1] = lines[n]
                               /\ j > 1 => /\ origin[j-1] = n - 1
                                           /\ modified_lines[j-1] = lines[n-1]

\* A declaration whose predecessor is a deeper-indented prefixed line: not
\* equal to the expected line, yet no insertion.
C5_Witness ==
    /\ InFix
    /\ \E n \in 2..i :
           /\ IsDeclaration(lines[n])
           /\ PrevOriginal(n) # Prefixed(IndentOf(lines[n]), ValueOf(lines[n]))
           /\ contains(Prefixed(IndentOf(lines[n]), ValueOf(lines[n])), PrevOriginal(n))
           /\ ~ InsertedBefore(n)

\* C8: an inserted line is the indentation of the matched line, then
\* "-webkit-backdrop-filter: ", its value and ";", it stands immediately
\* before that matched line, and no matched line gets two.
C8_InsertedLine ==
    InFix =>
        \A j \in 1..Len(origin) :
            origin[j] = 0 =>
                /\ j < Len(origin)
                /\ origin[j+1] # 0
                /\ modified_lines[j+1] = lines[origin[j+1]]
                /\ IsDeclaration(modified_lines[j+1])
                /\ modified_lines[j] =
                       IndentOf(modified_lines[j+1])
                           \o <<"-webkit-", "backdrop-filter:", " ">>
                           \o ValueOf(modified_lines[j+1]) \o <<";">>

\* A line was inserted for "  backdrop-filter:2;" (two spaces, no space
\* after the colon).
C8_Witness ==
    /\ InFix
    /\ \E j \in 1..(Len(origin) - 1) :
           /\ origin[j] = 0
           /\ modified_lines[j+1] = <<" ", " ", PROP, "2", SEMI>>
           /\ modified_lines[j] = <<" ", " ", WEBKIT, PROP, " ", "2", SEMI>>

(***************************************************************************)
(* Properties of main, checked under Spec.                                 *)
(***************************************************************************)
Failed == exc # None

\* C6: a failure of the read, the patch or the write is caught in main: the
\* error notice with the failure's description is printed and the run ends
\* normally, in the state the success path ends in; nothing propagates.
C6_FailuresCaught ==
    /\ pc # "raised"
    /\ pc = "done" \/ ENABLED Next
    /\ (Failed /\ pc \notin {"exit_r", "exit_w", "except"}) =>
           /\ pc = "done"
           /\ stdout = << <<"error", exc.cls>> >>

\* A run whose read raised UnicodeDecodeError has ended normally.
C6_Witness ==
    /\ pc = "done"
    /\ exc = [cls |-> "UnicodeDecodeError"]
    /\ stdout = << <<"error", "UnicodeDecodeError">> >>

\* C7: a run prints exactly one notice, the success notice or the error
\* notice; the success notice only once the read, the patch and the write of
\* the patched content are complete, the error notice only after a failure.
C7_OneNotice ==
    /\ Len(stdout) <= 1
    /\ pc \in {"done", "raised"} <=> Len(stdout) = 1
    /\ \A k \in 1..Len(stdout) :
           /\ stdout[k] \in {<<"success">>, <<"error", exc.cls>>}
           /\ stdout[k] = <<"success">> =>
                  /\ ~ Failed
                  /\ handles = {}
                  /\ lines = split(css_content, NL)
                  /\ i = Len(lines)
                  /\ fixed_content = join(NL, modified_lines)
                  /\ file = fixed_content
           /\ stdout[k][1] = "error" => Failed

\* A run that inserted a line has printed the success notice.
C7_Witness ==
    /\ pc = "done"
    /\ stdout = << <<"success">> >>
    /\ \E j \in 1..Len(origin) : origin[j] = 0

\* C9: a file object is open only between its open and the end of its with
\* block, on the error paths too: never two at once, the write one only
\* after the read one is closed, none when the run ends.
C9_Handles ==
    /\ Cardinality(handles) <= 1
    /\ "r" \in handles => pc \in {"reading", "exit_r"}
    /\ "w" \in handles => pc \in {"writing", "exit_w"}
    /\ pc \in {"done", "raised"} => handles = {}

\* A run whose write failed has ended with the write handle released.
C9_Witness ==
    /\ pc = "done"
    /\ exc = [cls |-> "OSError"]
    /\ Len(lines) > 0
    /\ file # fixed_content
    /\ handles = {}

\* C10: the file is opened for writing, and changed, only by steps taken
\* after the whole file was read and the patcher returned, with no exception
\* raised: a run whose read step fails never opens it for writing and leaves
\* its contents as they were.
C10_WriteAfterRead ==
    [][ (file' # file \/ ("w" \in handles' /\ "w" \notin handles)) =>
            /\ pc \in {"returned", "writing"}
            /\ ~ Failed
            /\ "r" \notin handles
            /\ lines = split(css_content, NL)
            /\ i = Len(lines)
            /\ fixed_content = join(NL, modified_lines)
            /\ pc = "returned" => css_content = file ]_vars

\* A run whose read failed has ended with the file not empty and nothing
\* patched.
C10_Witness ==
    /\ pc = "done"
    /\ exc.cls \in {"UnicodeDecodeError", "PermissionError"}
    /\ lines = <<>>
    /\ Len(file) > 3
    /\ "w" \notin handles

====
